---- MODULE Spec2Model ----
(***************************************************************************)
(* Model of archivebox/parsers/__init__.py: the parser dispatcher          *)
(* (run_parser_functions), its two bulk entry points (parse_links_memory,  *)
(* parse_links) and the two source-capture helpers (save_text_as_source,   *)
(* save_file_as_source).                                                   *)
(*                                                                         *)
(* One behaviour of the model is one call of one entry point, optionally   *)
(* followed by a second dispatch over the same input.  Strings are         *)
(* sequences of one-character strings.  The concrete parser functions      *)
(* (parse_*_export) live in sibling modules; they are modelled from the    *)
(* strategy interface: an extractor reads the stream it is given and       *)
(* either fails or returns a sequence of links.                            *)
(***************************************************************************)
EXTENDS Integers, Sequences, FiniteSets, TLC

VARIABLES
    op,                 \* the entry point this behaviour calls
    pc,                 \* position inside the running call
    urls,               \* parse_links_memory: the urls argument
    disk,               \* the file named by source_file / path: [exists, text]
    parsers,            \* the registry iterated by the dispatcher
    to_parse,           \* the stream object handed to the parsers: [content, pos]
    timer,              \* TimedProgress: "none", "running", "ended"
    idx,                \* loop position in PARSERS (1-based)
    most_links,         \* run_parser_functions local
    best_parser_name,   \* run_parser_functions local
    invoked,            \* log: one [name, pos, count] per parser invocation of this call
    result,             \* value returned by the entry point
    call,               \* 1 for the first dispatch, 2 for the consecutive one
    variant,            \* how the second dispatch relates to the first
    first_result,       \* value returned by the first dispatch
    loc,                \* save_file_as_source: the path argument [scheme, base]
    out_dir,            \* save_*_as_source: the out_dir argument
    filename,           \* save_*_as_source: the filename template
    raw_text,           \* save_text_as_source argument / raw_source_text local
    source_path,        \* save_*_as_source local
    written,            \* atomic_write calls so far: sequence of [path, text]
    logged,             \* log_source_saved calls so far: sequence of paths
    err,                \* save_file_as_source: the exception caught by the download's except
    exit_status         \* process exit status once SystemExit was raised, else -1

vars == <<op, pc, urls, disk, parsers, to_parse, timer, idx, most_links,
          best_parser_name, invoked, result, call, variant, first_result,
          loc, out_dir, filename, raw_text, source_path, written, logged,
          err, exit_status>>

(***************************************************************************)
(* Bounds                                                                  *)
(***************************************************************************)
NumParsers == 3     \* registry entries modelled (a prefix of PARSERS)
MaxText == 2        \* characters in a file / stream handed to the dispatcher
MaxUrls == 2        \* entries of the urls list
MaxCapture == 1     \* tokens of a captured document

(***************************************************************************)
(* Values                                                                  *)
(***************************************************************************)
None == "None"
NL == "\n"
NoResult == << >>
FailedToParse == "Failed to parse"

SeqsUpTo(S, n) == UNION {[1..k -> S] : k \in 0..n}

\* url strings, none containing a newline
UrlStrings == {<<"a">>, <<"b">>}
UrlLists == SeqsUpTo(UrlStrings, MaxUrls)
Texts == SeqsUpTo({"a", NL}, MaxText)
CaptureTexts == SeqsUpTo({"a", "&amp;"}, MaxCapture)

\* names of the registry, in registry order
ParserNames ==
    << "Pocket API", "Wallabag ATOM", "Pocket HTML", "Pinboard RSS",
       "Shaarli RSS", "Medium RSS", "Netscape HTML", "Generic RSS",
       "Generic JSON", "Generic HTML", "Plain Text" >>

\* what an extractor may do with the stream it is given
ParserBehaviours ==
    { [kind |-> "raises",   rewinds |-> FALSE],
      [kind |-> "empty",    rewinds |-> FALSE],
      [kind |-> "per_line", rewinds |-> FALSE],
      [kind |-> "per_a",    rewinds |-> FALSE],
      [kind |-> "per_a",    rewinds |-> TRUE] }

\* the registries the dispatcher may be run over: the names are fixed, the
\* behaviour of each extractor on the input is not
Registries ==
    { r \in [1..NumParsers -> [name : {ParserNames[i] : i \in 1..NumParsers},
                               kind : {"raises", "empty", "per_line", "per_a"},
                               rewinds : BOOLEAN]] :
        \A i \in 1..NumParsers :
            /\ r[i].name = ParserNames[i]
            /\ [kind |-> r[i].kind, rewinds |-> r[i].rewinds] \in ParserBehaviours }

(***************************************************************************)
(* String helpers                                                          *)
(***************************************************************************)
RECURSIVE Concat(_)
\* io.StringIO.writelines: the items are written one after another
Concat(ss) == IF ss = << >> THEN << >> ELSE Head(ss) \o Concat(Tail(ss))

RECURSIVE SplitOn(_, _)
\* str.split(sep): the fields between separators, at least one field
SplitOn(s, sep) ==
    IF \A k \in 1..Len(s) : s[k] # sep
    THEN << s >>
    ELSE LET k == CHOOSE j \in 1..Len(s) :
                      s[j] = sep /\ \A m \in 1..(j-1) : s[m] # sep
         IN << SubSeq(s, 1, k-1) >> \o SplitOn(SubSeq(s, k+1, Len(s)), sep)

IsNonEmpty(s) == s # << >>
NonEmptyLines(s) == SelectSeq(SplitOn(s, NL), IsNonEmpty)

IsA(c) == c = "a"
RECURSIVE PerA(_)
PerA(s) == IF s = << >> THEN << >>
           ELSE (IF IsA(Head(s)) THEN << <<"a">> >> ELSE << >>) \o PerA(Tail(s))

(***************************************************************************)
(* Dispatcher                                                              *)
(***************************************************************************)
\* parser_func(to_parse, root_url=root_url): reads the stream from where it
\* stands (or from the start if the extractor rewinds) up to the end
Extract(p, stream) ==
    LET start == IF p.rewinds THEN 0 ELSE stream.pos
        text == SubSeq(stream.content, start + 1, Len(stream.content))
    IN [ failed |-> p.kind = "raises",
         links  |-> CASE p.kind = "per_line" -> NonEmptyLines(text)
                      [] p.kind = "per_a"    -> PerA(text)
                      [] OTHER               -> << >>,
         pos    |-> Len(stream.content) ]

\* if not parsed_links: raise Exception('no links found')
NoLinksFound(parsed_links) == parsed_links = << >>

IsBetterOrEqual(parsed_links, most) == Len(parsed_links) >= Len(most)
\* if len(parsed_links) > len(most_links)
IsBetter(parsed_links, most) == Len(parsed_links) > Len(most)

UpdateBestLinksOnly(parser_name, parsed_links, old_name) ==
    [most_links |-> parsed_links, best_parser_name |-> old_name]
\* most_links = parsed_links; best_parser_name = parser_name
UpdateBest(parser_name, parsed_links, old_name) ==
    [most_links |-> parsed_links, best_parser_name |-> parser_name]

ExceptHandlerReraise == "raised"
\* except Exception as err: pass  -- the loop goes on
ExceptHandler == "loop"

WrapResultNoSentinel(links, parser) == << links, parser >>
\* if parser is None: return [], 'Failed to parse' / return links, parser
WrapResult(links, parser) ==
    IF parser = None THEN << << >>, FailedToParse >> ELSE << links, parser >>

NoStream == [content |-> << >>, pos |-> 0]
NoDisk == [exists |-> FALSE, text |-> << >>]
NoLoc == [scheme |-> "", base |-> ""]
NoPath == [root |-> "", dir |-> "", file |-> << >>]

ParseOps == {"parse_links_memory", "parse_links", "run_parser_functions"}
CaptureOps == {"save_text_as_source", "save_file_as_source"}

(***************************************************************************)
(* Source capture                                                          *)
(***************************************************************************)
OUTPUT_DIR == "output"
SOURCES_DIR_NAME == "sources"
OutDirs == {OUTPUT_DIR, "elsewhere"}
Timestamps == {"1700000000", "1700000001"}
Locations == [scheme : {"http://", "https://", "ftp://", "file://", ""}, base : {"export"}]

TextTemplate == << "{ts}", "-stdin.txt" >>
FileTemplate == << "{ts}", "-", "{basename}", ".txt" >>
Templates == {TextTemplate, FileTemplate}

\* any(path.startswith(s) for s in ('http://', 'https://', 'ftp://'))
IsRemote(path) == path.scheme \in {"http://", "https://", "ftp://"}

\* basename(path)
Basename(path) == path.base

\* filename.format(basename=..., ts=...)
Format(template, basename, ts) ==
    [k \in 1..Len(template) |->
        IF template[k] = "{ts}" THEN ts
        ELSE IF template[k] = "{basename}" THEN basename
        ELSE template[k]]

\* filename.format(ts=ts) raises KeyError on a {basename} token
NeedsBasename(template) == \E k \in 1..Len(template) : template[k] = "{basename}"

\* str(out_dir / SOURCES_DIR_NAME / name)
JoinPath(root, dir, name) == [root |-> root, dir |-> dir, file |-> name]

\* htmldecode(raw_source_text)
HtmlDecode(text) == [k \in 1..Len(text) |-> IF text[k] = "&amp;" THEN "&" ELSE text[k]]

FetchExceptHandlerContinue == [pc |-> "write", exit_status |-> -1]
\* except Exception as e: ... raise SystemExit(1)
FetchExceptHandler == [pc |-> "exit", exit_status |-> 1]

(***************************************************************************)
(* Initial states: one call of one entry point with its arguments          *)
(***************************************************************************)
FilesOf(S) == {NoDisk} \cup {[exists |-> TRUE, text |-> t] : t \in S}

Init ==
    /\ op \in ParseOps \cup CaptureOps
    /\ pc = "call"
    /\ urls \in (IF op = "parse_links_memory" THEN UrlLists ELSE {<< >>})
    /\ loc \in (IF op = "save_file_as_source" THEN Locations ELSE {NoLoc})
    /\ disk \in (IF op = "parse_links" THEN FilesOf(Texts)
                 ELSE IF op = "save_file_as_source" /\ ~IsRemote(loc)
                      THEN FilesOf(CaptureTexts)
                 ELSE {NoDisk})
    /\ parsers \in (IF op \in ParseOps THEN Registries ELSE {<< >>})
    /\ to_parse \in (IF op = "run_parser_functions"
                     THEN {[content |-> t, pos |-> 0] : t \in Texts}
                     ELSE {NoStream})
    /\ timer = (IF op = "run_parser_functions" THEN "running" ELSE "none")
    /\ idx = 0
    /\ most_links = << >>
    /\ best_parser_name = None
    /\ invoked = << >>
    /\ result = NoResult
    /\ call = 1
    /\ variant = "first"
    /\ first_result = NoResult
    /\ out_dir \in (IF op \in CaptureOps THEN OutDirs ELSE {""})
    /\ filename \in (IF op \in CaptureOps THEN Templates ELSE {<< >>})
    /\ raw_text \in (IF op = "save_text_as_source" THEN CaptureTexts ELSE {<< >>})
    /\ source_path = NoPath
    /\ written = << >>
    /\ logged = << >>
    /\ err = "none"
    /\ exit_status = -1

captureVars == <<loc, out_dir, filename, raw_text, source_path, written, logged,
                 err, exit_status>>
inputVars == <<op, urls, disk>>
rerunVars == <<call, variant, first_result>>

(***************************************************************************)
(* parse_links_memory / parse_links / run_parser_functions                 *)
(***************************************************************************)
\* most_links = []; best_parser_name = None; enter the for loop
EnterDispatch ==
    /\ idx' = 1
    /\ most_links' = << >>
    /\ best_parser_name' = None
    /\ invoked' = << >>
    /\ pc' = "loop"

\* parse_links_memory up to the call of run_parser_functions
ParseLinksMemory ==
    /\ op = "parse_links_memory" /\ pc = "call"
    /\ timer' = "running"
    /\ to_parse' = [content |-> Concat(urls), pos |-> Len(Concat(urls))]
    /\ EnterDispatch
    /\ UNCHANGED <<inputVars, parsers, result, rerunVars, captureVars>>

\* parse_links up to the call of run_parser_functions
ParseLinks ==
    /\ op = "parse_links" /\ pc = "call"
    /\ timer' = "running"
    /\ IF disk.exists
       THEN /\ to_parse' = [content |-> disk.text, pos |-> 0]
            /\ EnterDispatch
       ELSE /\ pc' = "raised"
            /\ UNCHANGED <<to_parse, idx, most_links, best_parser_name, invoked>>
    /\ UNCHANGED <<inputVars, parsers, result, rerunVars, captureVars>>

\* run_parser_functions called on a stream the caller holds
RunParserFunctions ==
    /\ op = "run_parser_functions" /\ pc = "call"
    /\ EnterDispatch
    /\ UNCHANGED <<inputVars, parsers, to_parse, timer, result, rerunVars, captureVars>>

\* one iteration of: for parser_name, parser_func in PARSERS
TryParser ==
    /\ pc = "loop" /\ idx <= Len(parsers)
    /\ LET p == parsers[idx]
           r == Extract(p, to_parse)
           raised == r.failed \/ NoLinksFound(r.links)
           new == IF ~raised /\ IsBetter(r.links, most_links)
                  THEN UpdateBest(p.name, r.links, best_parser_name)
                  ELSE [most_links |-> most_links, best_parser_name |-> best_parser_name]
       IN /\ to_parse' = [to_parse EXCEPT !.pos = r.pos]
          /\ invoked' = Append(invoked, [name |-> p.name, pos |-> to_parse.pos,
                                         count |-> IF r.failed THEN -1 ELSE Len(r.links)])
          /\ most_links' = new.most_links
          /\ best_parser_name' = new.best_parser_name
          /\ pc' = IF raised THEN ExceptHandler ELSE "loop"
    /\ idx' = idx + 1
    /\ UNCHANGED <<inputVars, parsers, timer, result, rerunVars, captureVars>>

\* the registry is exhausted: timer.end(); return most_links, best_parser_name
LoopExit ==
    /\ pc = "loop" /\ idx > Len(parsers)
    /\ timer' = "ended"
    /\ pc' = "dispatched"
    /\ UNCHANGED <<inputVars, parsers, to_parse, idx, most_links, best_parser_name,
                   invoked, result, rerunVars, captureVars>>

\* the entry point returns to its caller
Return ==
    /\ pc = "dispatched"
    /\ timer' = "ended"
    /\ result' = IF op = "run_parser_functions"
                 THEN << most_links, best_parser_name >>
                 ELSE WrapResult(most_links, best_parser_name)
    /\ pc' = "returned"
    /\ UNCHANGED <<inputVars, parsers, to_parse, idx, most_links, best_parser_name,
                   invoked, rerunVars, captureVars>>

\* the caller dispatches a second time over the same input
Rerun ==
    /\ op \in ParseOps /\ pc = "returned" /\ call = 1
    /\ call' = 2
    /\ variant' = "same"
    /\ first_result' = result
    /\ result' = NoResult
    /\ pc' = "call"
    /\ UNCHANGED <<inputVars, parsers, to_parse, timer, idx, most_links,
                   best_parser_name, invoked, captureVars>>

RemoveAt(s, k) == SubSeq(s, 1, k - 1) \o SubSeq(s, k + 1, Len(s))

\* the caller dispatches a second time over an equal, fresh input with one
\* never-matching entry taken out of the registry
RerunWithout(k) ==
    /\ op \in ParseOps /\ pc = "returned" /\ call = 1
    /\ k \in 1..Len(parsers)
    /\ parsers[k].kind \in {"raises", "empty"}
    /\ parsers' = RemoveAt(parsers, k)
    /\ to_parse' = IF op = "run_parser_functions"
                   THEN [to_parse EXCEPT !.pos = 0] ELSE to_parse
    /\ call' = 2
    /\ variant' = "without"
    /\ first_result' = result
    /\ result' = NoResult
    /\ pc' = "call"
    /\ UNCHANGED <<inputVars, timer, idx, most_links, best_parser_name, invoked,
                   captureVars>>

parseVars == <<parsers, to_parse, timer, idx, most_links, best_parser_name, invoked,
               rerunVars>>

(***************************************************************************)
(* save_text_as_source / save_file_as_source                               *)
(***************************************************************************)
\* save_text_as_source up to the call of atomic_write
SaveTextAsSource ==
    /\ op = "save_text_as_source" /\ pc = "call"
    /\ \E ts \in Timestamps :
        IF NeedsBasename(filename)
        THEN pc' = "raised" /\ UNCHANGED source_path
        ELSE /\ source_path' = JoinPath(out_dir, SOURCES_DIR_NAME,
                                         Format(filename, "", ts))
             /\ pc' = "write"
    /\ UNCHANGED <<inputVars, parseVars, result, loc, out_dir, filename, raw_text,
                   written, logged, err, exit_status>>

\* save_file_as_source up to the branch on the kind of path
SaveFileAsSource ==
    /\ op = "save_file_as_source" /\ pc = "call"
    /\ \E ts \in Timestamps :
        source_path' = JoinPath(OUTPUT_DIR, SOURCES_DIR_NAME,
                                Format(filename, Basename(loc), ts))
    /\ pc' = IF IsRemote(loc) THEN "download" ELSE "read"
    /\ UNCHANGED <<inputVars, parseVars, result, loc, out_dir, filename, raw_text,
                   written, logged, err, exit_status>>

\* raw_source_text = download_url(path, timeout=timeout)
DownloadUrl ==
    /\ pc = "download"
    /\ \/ \E t \in CaptureTexts : raw_text' = t /\ pc' = "decode" /\ UNCHANGED err
       \/ pc' = "failed" /\ err' = "download_url" /\ UNCHANGED raw_text
    /\ UNCHANGED <<inputVars, parseVars, result, loc, out_dir, filename, source_path,
                   written, logged, exit_status>>

\* raw_source_text = htmldecode(raw_source_text); timer.end()
Decode ==
    /\ pc = "decode"
    /\ \/ raw_text' = HtmlDecode(raw_text) /\ pc' = "write" /\ UNCHANGED err
       \/ pc' = "failed" /\ err' = "htmldecode" /\ UNCHANGED raw_text
    /\ UNCHANGED <<inputVars, parseVars, result, loc, out_dir, filename, source_path,
                   written, logged, exit_status>>

\* the except branch of the download
FetchFailed ==
    /\ pc = "failed"
    /\ pc' = FetchExceptHandler.pc
    /\ exit_status' = FetchExceptHandler.exit_status
    /\ UNCHANGED <<inputVars, parseVars, result, loc, out_dir, filename, raw_text,
                   source_path, written, logged, err>>

\* with open(path, 'r') as f: raw_source_text = f.read()
ReadLocal ==
    /\ pc = "read"
    /\ IF disk.exists
       THEN raw_text' = disk.text /\ pc' = "write"
       ELSE pc' = "raised" /\ UNCHANGED raw_text
    /\ UNCHANGED <<inputVars, parseVars, result, loc, out_dir, filename, source_path,
                   written, logged, err, exit_status>>

\* atomic_write(source_path, raw_source_text): all or nothing
AtomicWrite ==
    /\ pc = "write"
    /\ \/ written' = Append(written, [path |-> source_path, text |-> raw_text])
          /\ pc' = "log"
       \/ pc' = "raised" /\ UNCHANGED written
    /\ UNCHANGED <<inputVars, parseVars, result, loc, out_dir, filename, raw_text,
                   source_path, logged, err, exit_status>>

\* log_source_saved(source_file=source_path); return source_path
LogSourceSaved ==
    /\ pc = "log"
    /\ logged' = Append(logged, source_path)
    /\ result' = source_path
    /\ pc' = "returned"
    /\ UNCHANGED <<inputVars, parseVars, loc, out_dir, filename, raw_text,
                   source_path, written, err, exit_status>>

Next ==
    \/ ParseLinksMemory
    \/ ParseLinks
    \/ RunParserFunctions
    \/ TryParser
    \/ LoopExit
    \/ Return
    \/ Rerun
    \/ \E k \in 1..NumParsers : RerunWithout(k)
    \/ SaveTextAsSource
    \/ SaveFileAsSource
    \/ DownloadUrl
    \/ Decode
    \/ FetchFailed
    \/ ReadLocal
    \/ AtomicWrite
    \/ LogSourceSaved

Spec == Init /\ [][Next]_vars

(***************************************************************************)
(* Properties                                                              *)
(***************************************************************************)
Dispatching == op \in ParseOps /\ pc \in {"loop", "dispatched", "returned"}
Counts == {invoked[k].count : k \in 1..Len(invoked)}
MaxCount == IF Counts = {} THEN -1 ELSE CHOOSE m \in Counts : \A c \in Counts : c <= m
FirstWithMax == CHOOSE k \in 1..Len(invoked) :
                    /\ invoked[k].count = MaxCount
                    /\ \A j \in 1..(k - 1) : invoked[j].count # MaxCount

\* C1: records are empty exactly when no strategy name is set, after every
\* iteration of the registry loop and in the pair run_parser_functions returns
C1_EmptyIffNone ==
    op \in ParseOps =>
        /\ (most_links = << >>) <=> (best_parser_name = None)
        /\ (op = "run_parser_functions" /\ pc = "returned") =>
               ((result[1] = << >>) <=> (result[2] = None))

C1_Witness ==
    /\ op = "run_parser_functions" /\ pc = "returned"
    /\ result[1] # << >>
    /\ \E k \in 1..Len(invoked) : invoked[k].count = -1
    /\ \E k \in 1..Len(invoked) : invoked[k].count = 0

\* C2: a failing extractor never aborts the dispatch: the only exception a
\* parse entry point lets out is the failed open of parse_links before the
\* dispatch starts; each loop step advances by one registry entry, every
\* entry is invoked in order, and the call returns (empty, none) when no
\* entry produced a record
C2_NeverAborts ==
    op \in ParseOps =>
        /\ pc = "raised" => (op = "parse_links" /\ ~disk.exists /\ invoked = << >>)
        /\ pc = "loop" =>
               /\ idx \in 1..(Len(parsers) + 1)
               /\ Len(invoked) = idx - 1
        /\ pc \in {"dispatched", "returned"} =>
               /\ Len(invoked) = Len(parsers)
               /\ \A k \in 1..Len(parsers) : invoked[k].name = parsers[k].name
               /\ MaxCount <= 0 => (most_links = << >> /\ best_parser_name = None)

C2_Witness ==
    /\ op \in ParseOps /\ pc = "dispatched"
    /\ invoked[1].count = -1
    /\ invoked[Len(invoked)].count > 0

C4_AbsentEquivalent ==
    (op \in ParseOps /\ call = 2 /\ variant = "without" /\ pc = "returned") =>
        result = first_result

InputContent ==
    CASE op = "parse_links_memory" -> Concat(urls)
      [] op = "parse_links" -> disk.text
      [] OTHER -> to_parse.content

\* C5: whenever the dispatcher is about to invoke an extractor, the stream
\* holds the input's content and stands at its beginning
C5_StreamAtStart ==
    (op \in ParseOps /\ pc = "loop" /\ idx <= Len(parsers)) =>
        (to_parse.content = InputContent /\ to_parse.pos = 0)

\* C6: a second dispatch over the same input returns what the first returned
C6_Idempotent ==
    (op \in ParseOps /\ call = 2 /\ variant = "same" /\ pc = "returned") =>
        result = first_result

\* C7: the bulk entry points return the sentinel pair exactly when dispatch
\* found no winner, return dispatch's pair unchanged otherwise, never raise
\* once dispatch has started, and so the second component is the sentinel
\* exactly when the records are empty
C7_SentinelOnNoWinner ==
    op \in {"parse_links_memory", "parse_links"} =>
        /\ pc = "raised" => (op = "parse_links" /\ ~disk.exists /\ invoked = << >>)
        /\ pc = "returned" =>
               /\ (result = << << >>, FailedToParse >>) <=> (best_parser_name = None)
               /\ best_parser_name # None => result = << most_links, best_parser_name >>
               /\ (result[2] = FailedToParse) <=> (result[1] = << >>)

C7_Witness ==
    /\ op \in {"parse_links_memory", "parse_links"} /\ pc = "returned"
    /\ result = << << >>, FailedToParse >>
    /\ \E k \in 1..Len(invoked) : invoked[k].count = -1
    /\ \E k \in 1..Len(invoked) : invoked[k].count = 0

\* C8 as stated: a failed remote fetch ends in exit status 1 with nothing
\* written or notified, and every run that does not end in that exit has
\* made exactly one atomic write followed by the notification of its path
C8_FatalOrWritten ==
    op = "save_file_as_source" =>
        /\ err # "none" => (IsRemote(loc) /\ written = << >> /\ logged = << >>)
        /\ (err # "none" /\ pc # "failed") => (pc = "exit" /\ exit_status = 1)
        /\ pc \in {"returned", "raised"} =>
               /\ Len(written) = 1
               /\ logged = << written[1].path >>

\* C8 amended: a failed remote fetch ends in exit status 1 with nothing
\* written or notified; every call that returns has made exactly one atomic
\* write and then notified the returned path; a call that raises has
\* notified nothing
C8_FatalOrReturned ==
    op = "save_file_as_source" =>
        /\ err # "none" => (IsRemote(loc) /\ written = << >> /\ logged = << >>)
        /\ (err # "none" /\ pc # "failed") =>
               (pc = "exit" /\ exit_status = 1 /\ result = NoResult)
        /\ pc = "exit" => err # "none"
        /\ pc = "log" => (Len(written) = 1 /\ logged = << >>)
        /\ pc = "returned" =>
               /\ Len(written) = 1
               /\ written[1].path = result
               /\ logged = << result >>
               /\ exit_status = -1
        /\ pc = "raised" => (logged = << >> /\ result = NoResult)

C8_Witness ==
    /\ op = "save_file_as_source" /\ pc = "exit"
    /\ IsRemote(loc) /\ err = "htmldecode"

\* C9: the buffer parse_links_memory hands to the dispatcher splits on
\* newline into exactly the url strings it was given, in order
C9_NewlineDelimited ==
    (op = "parse_links_memory" /\ pc # "call") =>
        NonEmptyLines(to_parse.content) = urls

\* C10: both capture operations write to and return
\* out_dir / sources directory / filled-in template, and nothing else
C10_HonoursOutDir ==
    (op \in CaptureOps /\ pc = "returned") =>
        /\ result.root = out_dir
        /\ result.dir = SOURCES_DIR_NAME
        /\ \E ts \in Timestamps : result.file = Format(filename, Basename(loc), ts)
        /\ \A k \in 1..Len(written) : written[k].path = result
====
